---- MODULE Spec2Model ----
(***************************************************************************)
(* MediTransport backend: the ride lifecycle (create, update, assign), the *)
(* driver availability switch and the payment flow (intent, direct         *)
(* confirmation, provider webhook) as concurrent request handlers over a   *)
(* relational store.  Every `await query(...)` of a handler is one atomic  *)
(* step; the steps of different requests interleave freely under Spec and  *)
(* one request at a time under SpecSeq.  The status of an update body is   *)
(* bound in the step that writes it, the first place the handler uses it.  *)
(* The read side of the rides (list, fetch, tracking) runs with the ride    *)
(* writes under SpecRides, the vehicle registry under SpecVehicles and the  *)
(* registration over the connection pool under SpecRegister.               *)
(* Every request carries an identity that authenticateToken has accepted.  *)
(***************************************************************************)
EXTENDS Integers, Sequences, FiniteSets, TLC

\* ---------------------------------------------------------------- bounds
MaxRides == 1
MaxPayments == 1
\* requests accepted over the whole run
MaxRequests == 4
\* rows of ride_tracking
MaxSamples == 1
\* rows of ride_tracking a stored feed starts with
MaxFeed == 58
\* connections the pool holds (src/src/config/database.js:20 allows up to 20)
MaxConns == 2

\* SQL NULL / an absent request field; SERIAL ids start at 1
NULL == 0

\* request slots: requests handled at the same time by the event loop
Procs == {"p1", "p2"}

\* ------------------------------------------------------ identities, enums
\* users table: id -> role (the rows the store is seeded with)
\* (du3 is a driver identity that has no row in drivers)
Users == [adm |-> "admin", pat |-> "patient", pa2 |-> "patient",
          du1 |-> "driver", du2 |-> "driver", du3 |-> "driver"]

RideStatuses == {"pending", "accepted", "in-progress", "completed", "canceled"}

\* updateRideSchema.status when it passes validation: a valid status, or absent
PatchStatusInputs == RideStatuses \cup {"undefined"}

RideIds == 1..MaxRides
IntentIds == 1..MaxPayments
\* driverId of an assign body: absent, the two profiles, a profile that does not exist
DriverIdInputs == {NULL, 1, 2, 3}

EventTypes == {"payment_intent.succeeded", "payment_intent.payment_failed", "payment_intent.created"}

\* the pool's connections
Conns == 1..MaxConns

\* a connection outside a transaction
NoTxn == [state |-> "none", users |-> {}, drivers |-> {}]

\* Socket.IO clients
Sockets == {"s1", "s2"}
\* a client that has just connected
NoSocket == [rooms |-> {}, inbox |-> {}]

VARIABLES
    drivers,    \* drivers table: Seq of [user_id, availability], id = index
    vehicles,   \* vehicles table: Seq of [driver_id, license_plate], id = index
    rides,      \* rides table: Seq of [user_id, driver_id, vehicle_id, status], id = index
    payments,   \* payments table: Seq of [ride_id, user_id, status, stripe_payment_intent_id]
    stripe,     \* the provider's payment intents: Seq of [userId, rideId, status]
    events,     \* the provider events emitted so far: set of [type, id]
    tracking,   \* ride_tracking table: Seq of [ride_id, latitude, longitude], id = index
    users,      \* users table: set of [id, email, role] (committed rows)
    conns,      \* the pool's connections: their transaction state and uncommitted inserts
    sockets,    \* per Socket.IO client: the ride rooms joined, the events received
    nreq,       \* the number of requests accepted so far
    pc,         \* per request slot: the await point the handler is at
    req         \* per request slot: the request's inputs, locals and response

vars == <<drivers, vehicles, rides, payments, stripe, events, tracking, users, conns,
          sockets, nreq, pc, req>>
db == <<drivers, vehicles, rides, payments>>
\* what the ride lifecycle and payment handlers never write
side == <<tracking, users, conns, sockets>>

\* ------------------------------------------------------------ request slot
NoReq == [op |-> "none", user |-> "adm", ride |-> NULL, driver |-> NULL,
          status |-> "undefined", avail |-> FALSE, intent |-> NULL,
          type |-> "none", sig |-> FALSE,
          driverRow |-> NULL, vehicle_id |-> NULL, piStatus |-> "none",
          payRide |-> NULL, prev |-> "none", resp |-> 0,
          limit |-> 0, offset |-> 0, rows |-> << >>,
          latitude |-> << >>, longitude |-> << >>,
          email |-> "none", role |-> "none", licenseNumber |-> "none",
          userId |-> "none",
          startLatitude |-> << >>, startLongitude |-> << >>,
          endLatitude |-> << >>, endLongitude |-> << >>, vehicleType |-> "undefined",
          token |-> "none", identity |-> "none"]

\* slot p is free and takes the next request
Accept(p) ==
    /\ pc[p] = "idle"
    /\ nreq < MaxRequests
    /\ nreq' = nreq + 1

\* the handler of slot p moves on to its next await point
Goto(p, label, r) ==
    /\ pc' = [pc EXCEPT ![p] = label]
    /\ req' = [req EXCEPT ![p] = r]

\* res.status(code).json(...) / throw new AppError(..., code): the handler ends
Respond(p, code, r) == Goto(p, "done", [r EXCEPT !.resp = code])

\* requireRole(allowedRoles)
requireRole(allowedRoles, user) == Users[user] \in allowedRoles

Init ==
    /\ drivers = << [user_id |-> "du1", availability |-> TRUE, license_number |-> "L1",
                      vehicle_type |-> "car", rating |-> 500],
                    [user_id |-> "du2", availability |-> TRUE, license_number |-> "L2",
                      vehicle_type |-> "van", rating |-> 500] >>
    /\ vehicles = << [driver_id |-> 2, license_plate |-> "V2"] >>
    /\ rides = << >>
    /\ payments = << >>
    /\ stripe = << >>
    /\ events = {}
    /\ tracking = << >>
    /\ users = {[id |-> u, email |-> u, role |-> Users[u]] : u \in DOMAIN Users}
    /\ conns = [c \in Conns |-> NoTxn]
    /\ sockets = [s \in Sockets |-> NoSocket]
    /\ nreq = 0
    /\ pc = [p \in Procs |-> "idle"]
    /\ req = [p \in Procs |-> NoReq]

\* the client receives the response; the slot is free again
Return(p) ==
    /\ pc[p] = "done"
    /\ pc' = [pc EXCEPT ![p] = "idle"]
    /\ req' = [req EXCEPT ![p] = NoReq]
    /\ UNCHANGED <<db, stripe, events, nreq>>
    /\ UNCHANGED side

\* ------------------------------------------------------------ SQL of rides
\* SELECT id FROM drivers WHERE user_id = $1
SelectDriverByUser(user) == {d \in DOMAIN drivers : drivers[d].user_id = user}

\* INSERT INTO rides (user_id, ..., fare, ...) VALUES (...): status DEFAULT 'pending'
InsertRide(user, fare) ==
    Append(rides, [user_id |-> user, driver_id |-> NULL, vehicle_id |-> NULL,
                   status |-> "pending", fare |-> fare])

\* SELECT * FROM rides WHERE id = $1 [AND driver_id = $2]
SelectRidePermission(rideId, driverRow) ==
    {i \in DOMAIN rides : i = rideId /\ (driverRow = NULL \/ rides[i].driver_id = driverRow)}

\* UPDATE rides SET status = $1, ..., updated_at = NOW() WHERE id = $n
UpdateRideStatus(rideId, status) ==
    IF rideId \in DOMAIN rides /\ status # "undefined"
    THEN [rides EXCEPT ![rideId].status = status]
    ELSE rides

\* SELECT * FROM rides WHERE id = $1 AND status = 'pending'
SelectPendingRide(rideId) ==
    {i \in DOMAIN rides : i = rideId /\ rides[i].status = "pending"}

\* the driver lookup without its availability condition
SelectAvailableDriver_AnyAvailability(driverId) ==
    LET ds == {d \in DOMAIN drivers : d = driverId}
        vs(d) == {v \in DOMAIN vehicles : vehicles[v].driver_id = d}
        joined == UNION {{[id |-> d, vehicle_id |-> v] : v \in vs(d)} : d \in ds}
        unmatched == {[id |-> d, vehicle_id |-> NULL] : d \in {x \in ds : vs(x) = {}}}
    IN  joined \cup unmatched

\* SELECT d.*, v.id as vehicle_id FROM drivers d LEFT JOIN vehicles v
\*   ON d.id = v.driver_id WHERE d.id = $1 AND d.availability = true
SelectAvailableDriver(driverId) ==
    LET ds == {d \in DOMAIN drivers : d = driverId /\ drivers[d].availability}
        vs(d) == {v \in DOMAIN vehicles : vehicles[v].driver_id = d}
        joined == UNION {{[id |-> d, vehicle_id |-> v] : v \in vs(d)} : d \in ds}
        unmatched == {[id |-> d, vehicle_id |-> NULL] : d \in {x \in ds : vs(x) = {}}}
    IN  joined \cup unmatched

\* UPDATE rides SET driver_id = $1, vehicle_id = $2, status = 'accepted' WHERE id = $3
UpdateRideAssign(rideId, driverId, vehicleId) ==
    IF rideId \in DOMAIN rides
    THEN [rides EXCEPT ![rideId].driver_id = driverId,
                       ![rideId].vehicle_id = vehicleId,
                       ![rideId].status = "accepted"]
    ELSE rides

\* ----------------------------------------------------- POST /rides (create)
\* !x of JavaScript for an absent (<< >>) or a numeric (<<n>>) x
Falsy(x) == x = << >> \/ x[1] = 0

\* Earth's radius in miles
R == 3959
\* the base fare, 15.0, in 1/10000 dollar
BaseFare == 150000
\* LIMIT 5 of the advisory driver query
AdvisoryLimit == 5

\* <<startLatitude, startLongitude, endLatitude, endLongitude>> of the body, each
\* absent (<< >>) or a number of degrees (<<n>>): no coordinate
NoCoordinates == << << >>, << >>, << >>, << >> >>
\* no coordinate; two points off the zero lines; a start only; a start on the equator;
\* both points at latitude 0, longitude 0
RideCoordinates == { NoCoordinates,
                     << <<60>>, <<60>>, <<60>>, <<120>> >>,
                     << <<60>>, <<60>>, << >>, << >> >>,
                     << <<0>>, <<60>>, <<60>>, <<60>> >>,
                     << <<0>>, <<0>>, <<0>>, <<0>> >> }
\* vehicleType of the body
VehicleTypes == {"undefined", "car", "van"}

\* Math.sin(deg * Math.PI / 180 / 2), in hundredths
SinHalf(deg) == CASE deg = 0 -> 0 [] deg = 60 -> 50 [] deg = -60 -> -50
\* Math.cos(deg * Math.PI / 180), in hundredths
Cos(deg) == CASE deg = 0 -> 100 [] deg = 60 -> 50
\* 2 * Math.atan2(Math.sqrt(a), Math.sqrt(1 - a)) in 1/10000 radian, for a in 1/10000
Arc(a) == CASE a = 0 -> 0 [] a = 625 -> 5054 [] a = 2500 -> 10472 [] a = 3750 -> 13181

\* the Haversine distance of two points given in degrees, in 1/10000 mile
calculateDistance(lat1, lon1, lat2, lon2) ==
    LET dLat == lat2 - lat1
        dLon == lon2 - lon1
        a == SinHalf(dLat) * SinHalf(dLat) +
             (Cos(lat1) * Cos(lat2) * SinHalf(dLon) * SinHalf(dLon)) \div 10000
        c == Arc(a)
    IN  R * c

\* let estimatedFare = 15.0; if (startLatitude && startLongitude && endLatitude &&
\* endLongitude) estimatedFare += calculateDistance(...) * 2.5    (in 1/10000 dollar)
estimatedFare(startLatitude, startLongitude, endLatitude, endLongitude) ==
    IF /\ ~Falsy(startLatitude) /\ ~Falsy(startLongitude)
       /\ ~Falsy(endLatitude) /\ ~Falsy(endLongitude)
    THEN BaseFare + (calculateDistance(startLatitude[1], startLongitude[1],
                                       endLatitude[1], endLongitude[1]) * 25) \div 10
    ELSE BaseFare

\* the rows a query may return for ORDER BY rating DESC LIMIT n over the drivers D:
\* a driver of the highest rating first (drivers of equal rating come in any order)
RECURSIVE TopRated(_, _)
TopRated(D, n) ==
    IF n = 0 \/ D = {} THEN {<< >>}
    ELSE UNION {{<<d>> \o rest : rest \in TopRated(D \ {d}, n - 1)} :
                    d \in {x \in D : \A y \in D : drivers[y].rating <= drivers[x].rating}}

\* the advisory query without the availability condition
SelectAdvisoryDrivers_AnyAvailability(vehicleType) ==
    TopRated({d \in DOMAIN drivers :
                /\ \E u \in users : u.id = drivers[d].user_id
                /\ drivers[d].vehicle_type = vehicleType}, AdvisoryLimit)

\* SELECT d.id, ... FROM drivers d JOIN users du ON d.user_id = du.id
\* WHERE d.availability = true AND d.vehicle_type = $1 ORDER BY d.rating DESC LIMIT 5
SelectAdvisoryDrivers(vehicleType) ==
    TopRated({d \in DOMAIN drivers :
                /\ \E u \in users : u.id = drivers[d].user_id
                /\ drivers[d].availability
                /\ drivers[d].vehicle_type = vehicleType}, AdvisoryLimit)

\* requireRole(['patient','admin']), createRideSchema.validate, the fare, the INSERT;
\* without a vehicleType the 201 follows at once
\* (coordinates, vehicleTypes: the values the body's optional fields are drawn from)
CreateRideWith(p, coordinates, vehicleTypes) ==
    /\ Accept(p)
    /\ Len(rides) < MaxRides
    /\ \E user \in {"pat", "pa2", "du1"}, valid \in BOOLEAN :
        LET r == [NoReq EXCEPT !.op = "create", !.user = user] IN
        IF ~requireRole({"patient", "admin"}, user)
        THEN Respond(p, 403, r) /\ UNCHANGED rides
        ELSE IF ~valid
        THEN Respond(p, 400, r) /\ UNCHANGED rides
        ELSE \E body \in coordinates, vehicleType \in vehicleTypes :
             LET startLatitude == body[1]
                 startLongitude == body[2]
                 endLatitude == body[3]
                 endLongitude == body[4]
                 ride == [r EXCEPT !.ride = Len(rides) + 1,
                                   !.startLatitude = startLatitude,
                                   !.startLongitude = startLongitude,
                                   !.endLatitude = endLatitude,
                                   !.endLongitude = endLongitude,
                                   !.vehicleType = vehicleType] IN
             /\ rides' = InsertRide(user, estimatedFare(startLatitude, startLongitude,
                                                        endLatitude, endLongitude))
             /\ IF vehicleType # "undefined"
                THEN Goto(p, "create_drivers", ride)
                ELSE Respond(p, 201, ride)
    /\ UNCHANGED <<drivers, vehicles, payments, stripe, events>>
    /\ UNCHANGED side

\* POST /rides with a body that names no coordinates and no vehicleType
CreateRide(p) == CreateRideWith(p, {NoCoordinates}, {"undefined"})

\* POST /rides with any body
CreateRideAny(p) == CreateRideWith(p, RideCoordinates, VehicleTypes)

\* if (vehicleType) { const availableDrivers = await query(`SELECT d.id, ...`);
\* ride.availableDrivers = availableDrivers.rows }  res.status(201)
CreateRideDrivers(p) ==
    /\ pc[p] = "create_drivers"
    /\ \E availableDrivers \in SelectAdvisoryDrivers(req[p].vehicleType) :
        Respond(p, 201, [req[p] EXCEPT !.rows = availableDrivers])
    /\ UNCHANGED <<db, stripe, events, side, nreq>>

\* ------------------------------------------------ PATCH /rides/:id (update)
\* requireRole(['driver','admin']), updateRideSchema.validate, up to the first await
PatchBegin(p) ==
    /\ Accept(p)
    /\ \E user \in {"adm", "du1", "du3", "pat"}, rideId \in RideIds, valid \in BOOLEAN :
        LET r == [NoReq EXCEPT !.op = "patch", !.user = user, !.ride = rideId] IN
        IF ~requireRole({"driver", "admin"}, user) THEN Respond(p, 403, r)
        ELSE IF ~valid THEN Respond(p, 400, r)
        ELSE IF Users[user] = "driver" THEN Goto(p, "patch_driver", r)
        ELSE Goto(p, "patch_perm", r)
    /\ UNCHANGED <<db, stripe, events>>
    /\ UNCHANGED side

\* const driverResult = await query('SELECT id FROM drivers WHERE user_id = $1')
PatchDriver(p) ==
    /\ pc[p] = "patch_driver"
    /\ UNCHANGED nreq
    /\ LET driverResult == SelectDriverByUser(req[p].user) IN
        IF driverResult = {}
        THEN Goto(p, "patch_perm", req[p])
        ELSE \E d \in driverResult : Goto(p, "patch_perm", [req[p] EXCEPT !.driverRow = d])
    /\ UNCHANGED <<db, stripe, events>>
    /\ UNCHANGED side

\* const rideCheck = await query(permissionQuery, permissionParams)
PatchPermission(p) ==
    /\ pc[p] = "patch_perm"
    /\ UNCHANGED nreq
    /\ IF SelectRidePermission(req[p].ride, req[p].driverRow) = {}
       THEN Respond(p, 404, req[p])
       ELSE Goto(p, "patch_update", req[p])
    /\ UNCHANGED <<db, stripe, events>>
    /\ UNCHANGED side

\* const result = await query(updateQuery, updateParams)
PatchUpdate(p) ==
    /\ pc[p] = "patch_update"
    /\ UNCHANGED nreq
    /\ \E status \in PatchStatusInputs :
        /\ rides' = UpdateRideStatus(req[p].ride, status)
        /\ Respond(p, 200, [req[p] EXCEPT !.status = status])
    /\ UNCHANGED <<drivers, vehicles, payments, stripe, events>>
    /\ UNCHANGED side

\* ------------------------------------------------- POST /rides/:id/assign
\* requireRole(['admin']), if (!driverId) throw 400, up to the first await
AssignBegin(p) ==
    /\ Accept(p)
    /\ \E user \in {"adm", "du1"}, rideId \in RideIds, driverId \in DriverIdInputs :
        LET r == [NoReq EXCEPT !.op = "assign", !.user = user, !.ride = rideId,
                               !.driver = driverId] IN
        IF ~requireRole({"admin"}, user) THEN Respond(p, 403, r)
        ELSE IF driverId = NULL THEN Respond(p, 400, r)
        ELSE Goto(p, "assign_ride", r)
    /\ UNCHANGED <<db, stripe, events>>
    /\ UNCHANGED side

\* const rideResult = await query('SELECT * FROM rides WHERE id = $1 AND status = $2')
AssignCheckRide(p) ==
    /\ pc[p] = "assign_ride"
    /\ UNCHANGED nreq
    /\ IF SelectPendingRide(req[p].ride) = {}
       THEN Respond(p, 404, req[p])
       ELSE Goto(p, "assign_driver", req[p])
    /\ UNCHANGED <<db, stripe, events>>
    /\ UNCHANGED side

\* the driver check of an assign that has already written the driver to the ride
AssignCheckDriver_WritesFirst(p) ==
    /\ pc[p] = "assign_driver"
    /\ UNCHANGED nreq
    /\ rides' = [rides EXCEPT ![req[p].ride].driver_id = req[p].driver]
    /\ LET driverResult == SelectAvailableDriver(req[p].driver) IN
        IF driverResult = {}
        THEN Respond(p, 404, req[p])
        ELSE \E driver \in driverResult :
                Goto(p, "assign_update", [req[p] EXCEPT !.vehicle_id = driver.vehicle_id])
    /\ UNCHANGED <<drivers, vehicles, payments, stripe, events>>
    /\ UNCHANGED side

\* const driverResult = await query(`SELECT d.*, v.id as vehicle_id ...`); driver = rows[0]
AssignCheckDriver(p) ==
    /\ pc[p] = "assign_driver"
    /\ UNCHANGED nreq
    /\ LET driverResult == SelectAvailableDriver(req[p].driver) IN
        IF driverResult = {}
        THEN Respond(p, 404, req[p])
        ELSE \E driver \in driverResult :
                Goto(p, "assign_update", [req[p] EXCEPT !.vehicle_id = driver.vehicle_id])
    /\ UNCHANGED <<db, stripe, events>>
    /\ UNCHANGED side

\* the assign write that also takes the driver off the available list
AssignUpdate_TakesDriver(p) ==
    /\ pc[p] = "assign_update"
    /\ UNCHANGED nreq
    /\ rides' = UpdateRideAssign(req[p].ride, req[p].driver, req[p].vehicle_id)
    /\ drivers' = [drivers EXCEPT ![req[p].driver].availability = FALSE]
    /\ Respond(p, 200, [req[p] EXCEPT !.prev = rides[req[p].ride].status])
    /\ UNCHANGED <<vehicles, payments, stripe, events>>
    /\ UNCHANGED side

\* const updateResult = await query(`UPDATE rides SET driver_id = $1, ... WHERE id = $3`)
\* (prev: the ride status this write replaces)
AssignUpdate(p) ==
    /\ pc[p] = "assign_update"
    /\ UNCHANGED nreq
    /\ rides' = UpdateRideAssign(req[p].ride, req[p].driver, req[p].vehicle_id)
    /\ Respond(p, 200, [req[p] EXCEPT !.prev = rides[req[p].ride].status])
    /\ UNCHANGED <<drivers, vehicles, payments, stripe, events>>
    /\ UNCHANGED side

\* -------------------------------------------- PATCH /drivers/availability
\* UPDATE drivers SET availability = $1 WHERE user_id = $2 RETURNING *
UpdateDriverAvailability(user, availability) ==
    IF SelectDriverByUser(user) = {} THEN drivers
    ELSE [drivers EXCEPT ![CHOOSE d \in SelectDriverByUser(user) : TRUE].availability =
                            availability]

\* requireDriver, if (typeof availability !== 'boolean') throw 400, the UPDATE, 404 on no row
SetAvailability(p) ==
    /\ Accept(p)
    /\ \E user \in {"du2", "adm", "pat"}, valid \in BOOLEAN, availability \in BOOLEAN :
        LET r == [NoReq EXCEPT !.op = "availability", !.user = user] IN
        IF ~requireRole({"driver", "admin"}, user)
        THEN Respond(p, 403, r) /\ UNCHANGED drivers
        ELSE IF ~valid
        THEN Respond(p, 400, r) /\ UNCHANGED drivers
        ELSE IF SelectDriverByUser(user) = {}
        THEN Respond(p, 404, r) /\ UNCHANGED drivers
        ELSE /\ drivers' = UpdateDriverAvailability(user, availability)
             /\ Respond(p, 200, [r EXCEPT !.avail = availability])
    /\ UNCHANGED <<vehicles, rides, payments, stripe, events>>
    /\ UNCHANGED side

\* --------------------------------------------------- the payment provider
\* stripe.paymentIntents.create({amount, currency, metadata: {rideId, userId}})
paymentIntentsCreate(rideId, userId) ==
    Append(stripe, [userId |-> userId, rideId |-> rideId,
                    status |-> "requires_payment_method"])

\* the payer pays: the intent succeeds and the provider emits payment_intent.succeeded
StripeSucceed ==
    /\ \E i \in DOMAIN stripe :
        /\ stripe[i].status # "succeeded"
        /\ stripe' = [stripe EXCEPT ![i].status = "succeeded"]
        /\ events' = events \cup {[type |-> "payment_intent.succeeded", id |-> i]}
    /\ UNCHANGED <<db, nreq, pc, req>>
    /\ UNCHANGED side

\* a payment attempt fails: the provider emits payment_intent.payment_failed
StripeFail ==
    /\ \E i \in DOMAIN stripe :
        /\ stripe[i].status # "succeeded"
        /\ [type |-> "payment_intent.payment_failed", id |-> i] \notin events
        /\ events' = events \cup {[type |-> "payment_intent.payment_failed", id |-> i]}
    /\ UNCHANGED <<db, stripe, nreq, pc, req>>
    /\ UNCHANGED side

\* --------------------------------------------------------- SQL of payments
\* SELECT * FROM rides WHERE id = $1 AND user_id = $2
SelectRideOfUser(rideId, userId) ==
    {i \in DOMAIN rides : i = rideId /\ rides[i].user_id = userId}

\* INSERT INTO payments (ride_id, user_id, amount, method, status, stripe_payment_intent_id)
\*   VALUES ($1, $2, $3, 'credit_card', 'pending', $6)
InsertPayment(rideId, userId, paymentIntentId) ==
    Append(payments, [ride_id |-> rideId, user_id |-> userId, status |-> "pending",
                      stripe_payment_intent_id |-> paymentIntentId])

\* paymentIntent.status === 'succeeded' ? 'completed' : 'failed'
ConfirmStatus(piStatus) == IF piStatus = "succeeded" THEN "completed" ELSE "failed"

\* the rows of UPDATE payments ... WHERE stripe_payment_intent_id = $2 AND user_id = $3
PaymentRowsOfUser(paymentIntentId, userId) ==
    {j \in DOMAIN payments : /\ payments[j].stripe_payment_intent_id = paymentIntentId
                             /\ payments[j].user_id = userId}

\* UPDATE payments SET status = $1, payment_date = NOW() WHERE ... RETURNING *
UpdatePaymentConfirm(status, paymentIntentId, userId) ==
    [j \in DOMAIN payments |->
        IF j \in PaymentRowsOfUser(paymentIntentId, userId)
        THEN [payments[j] EXCEPT !.status = status]
        ELSE payments[j]]

\* the completion write guarded against canceled rides
UpdateRideCompleted_UnlessCanceled(rideId) ==
    IF rideId \in DOMAIN rides /\ rides[rideId].status # "canceled"
    THEN [rides EXCEPT ![rideId].status = "completed"]
    ELSE rides

\* UPDATE rides SET status = 'completed', updated_at = NOW() WHERE id = $2
UpdateRideCompleted(rideId) ==
    IF rideId \in DOMAIN rides
    THEN [rides EXCEPT ![rideId].status = "completed"]
    ELSE rides

\* the rows of UPDATE payments ... WHERE stripe_payment_intent_id = $1
PaymentRowsOfIntent(paymentIntentId) ==
    {j \in DOMAIN payments : payments[j].stripe_payment_intent_id = paymentIntentId}

\* the webhook write that treats a row already in the event's status as a reversal
UpdatePaymentWebhook_DuplicateReverses(status, paymentIntentId) ==
    [j \in DOMAIN payments |->
        IF j \in PaymentRowsOfIntent(paymentIntentId)
        THEN [payments[j] EXCEPT !.status =
                IF payments[j].status = status THEN "refunded" ELSE status]
        ELSE payments[j]]

\* UPDATE payments SET status = 'completed' | 'failed' WHERE stripe_payment_intent_id = $1
UpdatePaymentWebhook(status, paymentIntentId) ==
    [j \in DOMAIN payments |->
        IF j \in PaymentRowsOfIntent(paymentIntentId)
        THEN [payments[j] EXCEPT !.status = status]
        ELSE payments[j]]

\* ------------------------------------------- POST /payments/create-intent
\* intents the provider holds or is about to be asked for
IntentsInFlight ==
    Cardinality({q \in Procs : pc[q] \in {"intent_ride", "intent_stripe"}})

\* if (!rideId || !amount) throw 400, up to the first await
CreateIntentBegin(p) ==
    /\ Accept(p)
    /\ Len(stripe) + IntentsInFlight < MaxPayments
    /\ \E user \in {"pat", "adm"}, rideId \in RideIds, valid \in BOOLEAN :
        LET r == [NoReq EXCEPT !.op = "intent", !.user = user, !.ride = rideId] IN
        IF ~valid THEN Respond(p, 400, r)
        ELSE Goto(p, "intent_ride", r)
    /\ UNCHANGED <<db, stripe, events>>
    /\ UNCHANGED side

\* const rideResult = await query('SELECT * FROM rides WHERE id = $1 AND user_id = $2')
CreateIntentCheckRide(p) ==
    /\ pc[p] = "intent_ride"
    /\ IF SelectRideOfUser(req[p].ride, req[p].user) = {}
       THEN Respond(p, 404, req[p])
       ELSE Goto(p, "intent_stripe", req[p])
    /\ UNCHANGED <<db, stripe, events, nreq>>
    /\ UNCHANGED side

\* const paymentIntent = await stripe.paymentIntents.create(...); a provider error is
\* caught and rethrown as 500
CreateIntentStripe(p) ==
    /\ pc[p] = "intent_stripe"
    /\ \/ /\ stripe' = paymentIntentsCreate(req[p].ride, req[p].user)
          /\ events' = events \cup {[type |-> "payment_intent.created", id |-> Len(stripe) + 1]}
          /\ Goto(p, "intent_insert", [req[p] EXCEPT !.intent = Len(stripe) + 1])
       \/ /\ Respond(p, 500, req[p])
          /\ UNCHANGED <<stripe, events>>
    /\ UNCHANGED <<db, nreq>>
    /\ UNCHANGED side

\* await query(`INSERT INTO payments ...`)
CreateIntentInsert(p) ==
    /\ pc[p] = "intent_insert"
    /\ payments' = InsertPayment(req[p].ride, req[p].user, req[p].intent)
    /\ Respond(p, 200, req[p])
    /\ UNCHANGED <<drivers, vehicles, rides, stripe, events, nreq>>
    /\ UNCHANGED side

\* ---------------------------------- POST /payments/confirm/:paymentIntentId
ConfirmBegin(p) ==
    /\ Accept(p)
    /\ \E user \in {"pat", "adm"}, paymentIntentId \in IntentIds :
        Goto(p, "confirm_retrieve",
             [NoReq EXCEPT !.op = "confirm", !.user = user, !.intent = paymentIntentId])
    /\ UNCHANGED <<db, stripe, events>>
    /\ UNCHANGED side

\* const paymentIntent = await stripe.paymentIntents.retrieve(paymentIntentId);
\* if (paymentIntent.metadata.userId !== userId) throw 403: caught, rethrown as 500
ConfirmRetrieve(p) ==
    /\ pc[p] = "confirm_retrieve"
    /\ IF req[p].intent \notin DOMAIN stripe
       THEN Respond(p, 500, req[p])
       ELSE IF stripe[req[p].intent].userId # req[p].user
       THEN Respond(p, 500, req[p])
       ELSE Goto(p, "confirm_update",
                 [req[p] EXCEPT !.piStatus = stripe[req[p].intent].status])
    /\ UNCHANGED <<db, stripe, events, nreq>>
    /\ UNCHANGED side

\* const updateResult = await query(`UPDATE payments SET status = $1 ... RETURNING *`);
\* no row: throw 404, caught and rethrown as 500; payment = updateResult.rows[0]
ConfirmUpdate(p) ==
    /\ pc[p] = "confirm_update"
    /\ LET rows == PaymentRowsOfUser(req[p].intent, req[p].user) IN
        /\ payments' = UpdatePaymentConfirm(ConfirmStatus(req[p].piStatus),
                                            req[p].intent, req[p].user)
        /\ IF rows = {}
           THEN Respond(p, 500, req[p])
           ELSE \E j \in rows :
                IF req[p].piStatus = "succeeded"
                THEN Goto(p, "confirm_ride", [req[p] EXCEPT !.payRide = payments[j].ride_id])
                ELSE Respond(p, 200, [req[p] EXCEPT !.payRide = payments[j].ride_id])
    /\ UNCHANGED <<drivers, vehicles, rides, stripe, events, nreq>>
    /\ UNCHANGED side

\* await query('UPDATE rides SET status = $1, updated_at = NOW() WHERE id = $2')
\* (prev: the ride status this write replaces)
ConfirmRide(p) ==
    /\ pc[p] = "confirm_ride"
    /\ rides' = UpdateRideCompleted(req[p].payRide)
    /\ Respond(p, 200, [req[p] EXCEPT !.prev = rides[req[p].payRide].status])
    /\ UNCHANGED <<drivers, vehicles, payments, stripe, events, nreq>>
    /\ UNCHANGED side

\* ------------------------------------------------- POST /payments/webhook
\* the webhook entry that handles an event whatever its signature
WebhookBegin_NoVerify(p) ==
    /\ Accept(p)
    /\ \E sig \in BOOLEAN, type \in EventTypes, id \in IntentIds :
        LET r == [NoReq EXCEPT !.op = "webhook", !.sig = sig, !.type = type,
                               !.intent = id] IN
        /\ sig => [type |-> type, id |-> id] \in events
        /\ IF type = "payment_intent.succeeded" THEN Goto(p, "webhook_succeeded", r)
           ELSE IF type = "payment_intent.payment_failed" THEN Goto(p, "webhook_failed", r)
           ELSE Respond(p, 200, r)
    /\ UNCHANGED <<db, stripe, events>>
    /\ UNCHANGED side

\* the webhook entry that handles a succeeded event before it rejects its bad signature
WebhookBegin_HandlesThenRejects(p) ==
    /\ Accept(p)
    /\ \E sig \in BOOLEAN, type \in EventTypes, id \in IntentIds :
        LET r == [NoReq EXCEPT !.op = "webhook", !.sig = sig, !.type = type,
                               !.intent = id] IN
        /\ sig => [type |-> type, id |-> id] \in events
        /\ IF ~sig
           THEN /\ payments' = IF type = "payment_intent.succeeded"
                                THEN UpdatePaymentWebhook("completed", id)
                                ELSE payments
                /\ Respond(p, 400, r)
           ELSE /\ UNCHANGED payments
                /\ IF type = "payment_intent.succeeded" THEN Goto(p, "webhook_succeeded", r)
                   ELSE IF type = "payment_intent.payment_failed"
                   THEN Goto(p, "webhook_failed", r)
                   ELSE Respond(p, 200, r)
    /\ UNCHANGED <<drivers, vehicles, rides, stripe, events>>
    /\ UNCHANGED side

\* event = stripe.webhooks.constructEvent(req.body, sig, secret): a payload the provider
\* signed is one of the events it emitted; anything else throws and is answered 400
WebhookBegin(p) ==
    /\ Accept(p)
    /\ \E sig \in BOOLEAN, type \in EventTypes, id \in IntentIds :
        LET r == [NoReq EXCEPT !.op = "webhook", !.sig = sig, !.type = type,
                               !.intent = id] IN
        /\ sig => [type |-> type, id |-> id] \in events
        /\ IF ~sig THEN Respond(p, 400, r)
           ELSE IF type = "payment_intent.succeeded" THEN Goto(p, "webhook_succeeded", r)
           ELSE IF type = "payment_intent.payment_failed" THEN Goto(p, "webhook_failed", r)
           ELSE Respond(p, 200, r)
    /\ UNCHANGED <<db, stripe, events>>
    /\ UNCHANGED side

\* the status of the payment row of an intent ("none" when there is no row)
PaymentStatusOfIntent(paymentIntentId) ==
    IF PaymentRowsOfIntent(paymentIntentId) = {} THEN "none"
    ELSE payments[CHOOSE j \in PaymentRowsOfIntent(paymentIntentId) : TRUE].status

\* case 'payment_intent.succeeded': await query(`UPDATE payments SET status = 'completed'`)
\* (prev: the payment status this write replaces)
WebhookSucceeded(p) ==
    /\ pc[p] = "webhook_succeeded"
    /\ payments' = UpdatePaymentWebhook("completed", req[p].intent)
    /\ Respond(p, 200, [req[p] EXCEPT !.prev = PaymentStatusOfIntent(req[p].intent)])
    /\ UNCHANGED <<drivers, vehicles, rides, stripe, events, nreq>>
    /\ UNCHANGED side

\* case 'payment_intent.payment_failed': await query(`UPDATE payments SET status = 'failed'`)
WebhookFailed(p) ==
    /\ pc[p] = "webhook_failed"
    /\ payments' = UpdatePaymentWebhook("failed", req[p].intent)
    /\ Respond(p, 200, [req[p] EXCEPT !.prev = PaymentStatusOfIntent(req[p].intent)])
    /\ UNCHANGED <<drivers, vehicles, rides, stripe, events, nreq>>
    /\ UNCHANGED side

\* ------------------------------------------------------ GET /rides (list)
\* req.query.status: a status to filter on, or absent
StatusFilters == {"undefined", "pending", "accepted"}
\* req.query.limit and req.query.offset
Limits == {1, 20}
Offsets == {0, 1}

\* ORDER BY created_at DESC: the latest row first (ids grow with creation)
RECURSIVE Descending(_)
Descending(S) ==
    IF S = {} THEN << >>
    ELSE LET m == CHOOSE x \in S : \A y \in S : y <= x
         IN  <<m>> \o Descending(S \ {m})

\* LIMIT $n OFFSET $m
Page(rows, limit, offset) ==
    [k \in 1..(IF Len(rows) - offset < limit
               THEN (IF Len(rows) - offset < 0 THEN 0 ELSE Len(rows) - offset)
               ELSE limit) |-> rows[offset + k]]

\* the list query without the patient's user_id condition
SelectRidesList_Unscoped(role, user, driverRow, status) ==
    {i \in DOMAIN rides :
        /\ (role = "driver" /\ driverRow # NULL) => rides[i].driver_id = driverRow
        /\ status # "undefined" => rides[i].status = status}

\* SELECT r.*, ... FROM rides r ... WHERE 1=1 [AND r.user_id = $n] [AND r.driver_id = $n]
\*   [AND r.status = $n]
SelectRidesList(role, user, driverRow, status) ==
    {i \in DOMAIN rides :
        /\ role = "patient" => rides[i].user_id = user
        /\ (role = "driver" /\ driverRow # NULL) => rides[i].driver_id = driverRow
        /\ status # "undefined" => rides[i].status = status}

\* up to the first await: the driver lookup for a driver, the list query for the others
ListBegin(p) ==
    /\ Accept(p)
    /\ \E user \in {"pat", "pa2", "du1", "du3", "adm"} :
        LET r == [NoReq EXCEPT !.op = "list", !.user = user] IN
        IF Users[user] = "driver" THEN Goto(p, "list_driver", r)
        ELSE Goto(p, "list_query", r)
    /\ UNCHANGED <<db, stripe, events, side>>

\* const driverResult = await query('SELECT id FROM drivers WHERE user_id = $1')
ListDriver(p) ==
    /\ pc[p] = "list_driver"
    /\ LET driverResult == SelectDriverByUser(req[p].user) IN
        IF driverResult = {}
        THEN Goto(p, "list_query", req[p])
        ELSE \E d \in driverResult : Goto(p, "list_query", [req[p] EXCEPT !.driverRow = d])
    /\ UNCHANGED <<db, stripe, events, side, nreq>>

\* const result = await query(queryText, queryParams); res.json({rides: result.rows, ...})
ListQuery(p) ==
    /\ pc[p] = "list_query"
    /\ \E status \in StatusFilters, limit \in Limits, offset \in Offsets :
        Respond(p, 200,
                [req[p] EXCEPT !.status = status, !.limit = limit, !.offset = offset,
                               !.rows = Page(Descending(SelectRidesList(Users[req[p].user],
                                                req[p].user, req[p].driverRow, status)),
                                             limit, offset)])
    /\ UNCHANGED <<db, stripe, events, side, nreq>>

\* ------------------------------------------------- GET /rides/:id (fetch)
\* SELECT r.*, ... FROM rides r ... WHERE r.id = $1 [AND r.user_id = $2 | AND r.driver_id = $2]
SelectRideById(rideId, role, user, driverRow) ==
    {i \in DOMAIN rides :
        /\ i = rideId
        /\ role = "patient" => rides[i].user_id = user
        /\ (role = "driver" /\ driverRow # NULL) => rides[i].driver_id = driverRow}

GetBegin(p) ==
    /\ Accept(p)
    /\ \E user \in {"pat", "pa2", "du1", "du3", "adm"}, rideId \in RideIds :
        LET r == [NoReq EXCEPT !.op = "get", !.user = user, !.ride = rideId] IN
        IF Users[user] = "driver" THEN Goto(p, "get_driver", r)
        ELSE Goto(p, "get_query", r)
    /\ UNCHANGED <<db, stripe, events, side>>

\* const driverResult = await query('SELECT id FROM drivers WHERE user_id = $1')
GetDriver(p) ==
    /\ pc[p] = "get_driver"
    /\ LET driverResult == SelectDriverByUser(req[p].user) IN
        IF driverResult = {}
        THEN Goto(p, "get_query", req[p])
        ELSE \E d \in driverResult : Goto(p, "get_query", [req[p] EXCEPT !.driverRow = d])
    /\ UNCHANGED <<db, stripe, events, side, nreq>>

\* const result = await query(queryText, queryParams); no row: throw 404
GetQuery(p) ==
    /\ pc[p] = "get_query"
    /\ LET result == SelectRideById(req[p].ride, Users[req[p].user], req[p].user,
                                    req[p].driverRow) IN
        IF result = {}
        THEN Respond(p, 404, req[p])
        ELSE Respond(p, 200, [req[p] EXCEPT !.rows = Descending(result)])
    /\ UNCHANGED <<db, stripe, events, side, nreq>>

\* --------------------------------------------- GET /rides/:id/tracking
\* SELECT r.id FROM rides r WHERE r.id = $1 AND (r.user_id = $2 [OR r.driver_id = $3])
SelectRideForTracking(rideId, user, driverRow) ==
    {i \in DOMAIN rides :
        /\ i = rideId
        /\ \/ rides[i].user_id = user
           \/ driverRow # NULL /\ rides[i].driver_id = driverRow}

\* the feed query that returns the oldest rows first
SelectTracking_OldestFirst(rideId) ==
    LET newest == Descending({k \in DOMAIN tracking : tracking[k].ride_id = rideId})
    IN  Page([k \in 1..Len(newest) |-> newest[Len(newest) + 1 - k]], 50, 0)

\* SELECT * FROM ride_tracking WHERE ride_id = $1 ORDER BY timestamp DESC LIMIT 50
SelectTracking(rideId) ==
    Page(Descending({k \in DOMAIN tracking : tracking[k].ride_id = rideId}), 50, 0)

\* up to the first await
TrackingBegin(p) ==
    /\ Accept(p)
    /\ \E user \in {"pat", "pa2", "du1", "du3", "adm"}, rideId \in RideIds :
        LET r == [NoReq EXCEPT !.op = "tracking", !.user = user, !.ride = rideId] IN
        IF Users[user] = "driver" THEN Goto(p, "tracking_driver", r)
        ELSE Goto(p, "tracking_perm", r)
    /\ UNCHANGED <<db, stripe, events, side>>

\* const driverResult = await query('SELECT id FROM drivers WHERE user_id = $1')
TrackingDriver(p) ==
    /\ pc[p] = "tracking_driver"
    /\ LET driverResult == SelectDriverByUser(req[p].user) IN
        IF driverResult = {}
        THEN Goto(p, "tracking_perm", req[p])
        ELSE \E d \in driverResult :
                Goto(p, "tracking_perm", [req[p] EXCEPT !.driverRow = d])
    /\ UNCHANGED <<db, stripe, events, side, nreq>>

\* the permission check that lets a caller who matches no row through
TrackingPermission_Open(p) ==
    /\ pc[p] = "tracking_perm"
    /\ Goto(p, "tracking_select", req[p])
    /\ UNCHANGED <<db, stripe, events, side, nreq>>

\* const permissionCheck = await query(permissionQuery, permissionParams);
\* if (permissionCheck.rows.length === 0 && req.user.role !== 'admin') throw 403
TrackingPermission(p) ==
    /\ pc[p] = "tracking_perm"
    /\ IF /\ SelectRideForTracking(req[p].ride, req[p].user, req[p].driverRow) = {}
          /\ Users[req[p].user] # "admin"
       THEN Respond(p, 403, req[p])
       ELSE Goto(p, "tracking_select", req[p])
    /\ UNCHANGED <<db, stripe, events, side, nreq>>

\* const trackingResult = await query(`SELECT * FROM ride_tracking ...`);
\* res.json({rideId, tracking: trackingResult.rows})
TrackingSelect(p) ==
    /\ pc[p] = "tracking_select"
    /\ Respond(p, 200, [req[p] EXCEPT !.rows = SelectTracking(req[p].ride)])
    /\ UNCHANGED <<db, stripe, events, side, nreq>>

\* -------------------------------------------- POST /rides/:id/tracking
\* latitude and longitude of the body: absent (<< >>) or a number (<<n>>)
Coordinates == {<< >>, <<0>>, <<37>>}

\* INSERT INTO ride_tracking (ride_id, latitude, longitude, ...) VALUES (...)
InsertTracking(rideId, latitude, longitude) ==
    Append(tracking, [ride_id |-> rideId, latitude |-> latitude[1],
                      longitude |-> longitude[1]])

\* requireRole(['driver']), if (!latitude || !longitude) throw 400, up to the first await
AddTrackingBegin(p) ==
    /\ Accept(p)
    /\ Len(tracking) < MaxSamples
    /\ \E user \in {"du1", "du3", "adm"}, rideId \in RideIds,
          latitude \in Coordinates, longitude \in Coordinates :
        LET r == [NoReq EXCEPT !.op = "point", !.user = user, !.ride = rideId,
                               !.latitude = latitude, !.longitude = longitude] IN
        IF ~requireRole({"driver"}, user) THEN Respond(p, 403, r)
        ELSE IF Falsy(latitude) \/ Falsy(longitude) THEN Respond(p, 400, r)
        ELSE Goto(p, "point_driver", r)
    /\ UNCHANGED <<db, stripe, events, side>>

\* const driverResult = await query('SELECT id FROM drivers WHERE user_id = $1');
\* no row: throw 404
AddTrackingDriver(p) ==
    /\ pc[p] = "point_driver"
    /\ LET driverResult == SelectDriverByUser(req[p].user) IN
        IF driverResult = {}
        THEN Respond(p, 404, req[p])
        ELSE \E d \in driverResult : Goto(p, "point_ride", [req[p] EXCEPT !.driverRow = d])
    /\ UNCHANGED <<db, stripe, events, side, nreq>>

\* const rideCheck = await query('SELECT id FROM rides WHERE id = $1 AND driver_id = $2');
\* no row: throw 404
AddTrackingRide(p) ==
    /\ pc[p] = "point_ride"
    /\ IF {i \in DOMAIN rides : i = req[p].ride /\ rides[i].driver_id = req[p].driverRow} = {}
       THEN Respond(p, 404, req[p])
       ELSE Goto(p, "point_insert", req[p])
    /\ UNCHANGED <<db, stripe, events, side, nreq>>

\* await query(`INSERT INTO ride_tracking ...`)
AddTrackingInsert(p) ==
    /\ pc[p] = "point_insert"
    /\ tracking' = InsertTracking(req[p].ride, req[p].latitude, req[p].longitude)
    /\ Respond(p, 200, req[p])
    /\ UNCHANGED <<db, stripe, events, users, conns, sockets, nreq>>

\* ------------------------------------------------------- POST /vehicles
\* licensePlate of the body
LicensePlates == {"V7", "V8"}

\* SELECT id FROM vehicles WHERE driver_id = $1
SelectVehiclesOfDriver(driverId) ==
    {v \in DOMAIN vehicles : vehicles[v].driver_id = driverId}

\* INSERT INTO vehicles (driver_id, license_plate, ...) VALUES (...) RETURNING *:
\* license_plate is UNIQUE; query() answers a failed statement with a made-up row
InsertVehicle(driverId, licensePlate) ==
    IF \E v \in DOMAIN vehicles : vehicles[v].license_plate = licensePlate
    THEN vehicles
    ELSE Append(vehicles, [driver_id |-> driverId, license_plate |-> licensePlate])

\* requireDriver, vehicleSchema.validate, up to the first await
AddVehicleBegin(p) ==
    /\ Accept(p)
    /\ \E user \in {"du1", "du2", "du3", "pat"}, valid \in BOOLEAN :
        LET r == [NoReq EXCEPT !.op = "vehicle", !.user = user] IN
        IF ~requireRole({"driver", "admin"}, user) THEN Respond(p, 403, r)
        ELSE IF ~valid THEN Respond(p, 400, r)
        ELSE Goto(p, "vehicle_driver", r)
    /\ UNCHANGED <<db, stripe, events, side>>

\* const driverResult = await query('SELECT id FROM drivers WHERE user_id = $1');
\* no row: throw 404
AddVehicleDriver(p) ==
    /\ pc[p] = "vehicle_driver"
    /\ LET driverResult == SelectDriverByUser(req[p].user) IN
        IF driverResult = {}
        THEN Respond(p, 404, req[p])
        ELSE \E d \in driverResult :
                Goto(p, "vehicle_existing", [req[p] EXCEPT !.driverRow = d])
    /\ UNCHANGED <<db, stripe, events, side, nreq>>

\* const existingVehicle = await query('SELECT id FROM vehicles WHERE driver_id = $1');
\* a row: throw 409
AddVehicleExisting(p) ==
    /\ pc[p] = "vehicle_existing"
    /\ IF SelectVehiclesOfDriver(req[p].driverRow) # {}
       THEN Respond(p, 409, req[p])
       ELSE Goto(p, "vehicle_insert", req[p])
    /\ UNCHANGED <<db, stripe, events, side, nreq>>

\* const result = await query(`INSERT INTO vehicles ... RETURNING *`); res.status(201)
AddVehicleInsert(p) ==
    /\ pc[p] = "vehicle_insert"
    /\ \E licensePlate \in LicensePlates :
        /\ vehicles' = InsertVehicle(req[p].driverRow, licensePlate)
        /\ Respond(p, 201, [req[p] EXCEPT !.vehicle_id =
                                IF vehicles' = vehicles THEN NULL ELSE Len(vehicles')])
    /\ UNCHANGED <<drivers, rides, payments, stripe, events, side, nreq>>

\* ------------------------------------------- the pool (query = pool.query)
\* Every query() runs on whichever client the pool hands out, so BEGIN, the INSERTs,
\* COMMIT and ROLLBACK of one handler may run on different connections.  A statement
\* that fails is answered by query() with a made-up result (no rows for a SELECT, one
\* row for an INSERT) and never throws.
\* the rows connection c sees: the committed ones and its own uncommitted ones
VisibleUsers(c) == users \cup conns[c].users

\* uncommitted rows of the other connections
OtherPendingUsers(c) == UNION {conns[d].users : d \in Conns \ {c}}
OtherPendingDrivers(c) == UNION {conns[d].drivers : d \in Conns \ {c}}

\* a failed statement aborts the transaction its connection is in
Failed(cn) == IF cn.state = "open" THEN [NoTxn EXCEPT !.state = "aborted"] ELSE cn

\* BEGIN
BeginOn(c) ==
    conns' = [conns EXCEPT ![c].state = IF @ = "none" THEN "open" ELSE @]

\* the rows appended one by one
RECURSIVE AppendAll(_, _)
AppendAll(seq, S) ==
    IF S = {} THEN seq
    ELSE LET x == CHOOSE y \in S : TRUE IN AppendAll(Append(seq, x), S \ {x})

\* a drivers row as INSERT INTO drivers (user_id, license_number, ...) creates it
\* (availability DEFAULT TRUE, rating DEFAULT 5.0; the body's vehicleType is car)
DriverRow(d) == [user_id |-> d.user_id, availability |-> TRUE,
                 license_number |-> d.license_number,
                 vehicle_type |-> "car", rating |-> 500]

\* COMMIT: an open transaction's rows become committed, an aborted one is rolled back
CommitOn(c) ==
    /\ conns' = [conns EXCEPT ![c] = NoTxn]
    /\ IF conns[c].state = "open"
       THEN /\ users' = users \cup conns[c].users
            /\ drivers' = AppendAll(drivers, {DriverRow(d) : d \in conns[c].drivers})
       ELSE UNCHANGED <<users, drivers>>

\* ROLLBACK
RollbackOn(c) == conns' = [conns EXCEPT ![c] = NoTxn]

\* SELECT ... FROM users WHERE email = $1 (no rows when the statement fails)
SelectUserByEmail(c, email) ==
    IF conns[c].state = "aborted" THEN {}
    ELSE {u \in VisibleUsers(c) : u.email = email}

\* SELECT ... FROM users WHERE id = $1 (no rows when the statement fails)
SelectUserById(c, id) ==
    IF conns[c].state = "aborted" THEN {}
    ELSE {u \in VisibleUsers(c) : u.id = id}

\* INSERT INTO users (id, email, role, ...): id PRIMARY KEY, email UNIQUE; it waits while
\* another connection holds the same email uncommitted
InsertUserOn(c, row) ==
    /\ ~\E u \in OtherPendingUsers(c) : u.email = row.email
    /\ UNCHANGED drivers
    /\ IF conns[c].state = "aborted"
       THEN UNCHANGED <<users, conns>>
       ELSE IF \E u \in VisibleUsers(c) : u.email = row.email \/ u.id = row.id
       THEN /\ UNCHANGED users
            /\ conns' = [conns EXCEPT ![c] = Failed(@)]
       ELSE IF conns[c].state = "open"
       THEN /\ UNCHANGED users
            /\ conns' = [conns EXCEPT ![c].users = @ \cup {row}]
       ELSE /\ users' = users \cup {row}
            /\ UNCHANGED conns

\* INSERT INTO drivers (user_id, license_number, ...): user_id UNIQUE REFERENCES users,
\* license_number UNIQUE; it waits while another connection holds the same key uncommitted
InsertDriverOn(c, row) ==
    /\ ~\E d \in OtherPendingDrivers(c) :
            d.license_number = row.license_number \/ d.user_id = row.user_id
    /\ UNCHANGED users
    /\ IF conns[c].state = "aborted"
       THEN UNCHANGED <<drivers, conns>>
       ELSE IF \/ ~\E u \in VisibleUsers(c) : u.id = row.user_id
               \/ \E i \in DOMAIN drivers :
                    \/ drivers[i].license_number = row.license_number
                    \/ drivers[i].user_id = row.user_id
               \/ \E d \in conns[c].drivers :
                    d.license_number = row.license_number \/ d.user_id = row.user_id
       THEN /\ UNCHANGED drivers
            /\ conns' = [conns EXCEPT ![c] = Failed(@)]
       ELSE IF conns[c].state = "open"
       THEN /\ UNCHANGED drivers
            /\ conns' = [conns EXCEPT ![c].drivers = @ \cup {row}]
       ELSE /\ drivers' = Append(drivers, DriverRow(row))
            /\ UNCHANGED conns

\* ---------------------------------------------------- POST /auth/register
\* email of the body: one that a seeded identity holds, one that is free
Emails == {"pat", "new"}
\* licenseNumber of the body: one that a seeded driver holds, one that is free
LicenseNumbers == {"L1", "L7"}
\* uuidv4(): a fresh id for every request
Uuids == <<"n1", "n2", "n3", "n4", "n5", "n6">>

\* registerSchema.validate, up to the first await (userId: the id uuidv4() will give)
RegisterBegin(p) ==
    /\ Accept(p)
    /\ nreq < Len(Uuids)
    /\ \E email \in Emails, role \in {"patient", "driver"}, valid \in BOOLEAN :
        LET r == [NoReq EXCEPT !.op = "register", !.email = email, !.role = role] IN
        IF ~valid THEN Respond(p, 400, r)
        ELSE Goto(p, "register_existing", [r EXCEPT !.userId = Uuids[nreq + 1]])
    /\ UNCHANGED <<db, stripe, events, side>>

\* const existingUser = await query('SELECT id FROM users WHERE email = $1');
\* a row: throw 409; then bcrypt.hash and userId = uuidv4()
RegisterExisting(p) ==
    /\ pc[p] = "register_existing"
    /\ \E c \in Conns :
        IF SelectUserByEmail(c, req[p].email) # {}
        THEN Respond(p, 409, req[p])
        ELSE Goto(p, "register_begin", req[p])
    /\ UNCHANGED <<db, stripe, events, side, nreq>>

\* await query('BEGIN')
RegisterTxBegin(p) ==
    /\ pc[p] = "register_begin"
    /\ \E c \in Conns : BeginOn(c)
    /\ Goto(p, "register_user", req[p])
    /\ UNCHANGED <<db, stripe, events, tracking, users, sockets, nreq>>

\* await query(`INSERT INTO users ...`)
RegisterInsertUser(p) ==
    /\ pc[p] = "register_user"
    /\ \E c \in Conns :
        InsertUserOn(c, [id |-> req[p].userId, email |-> req[p].email, role |-> req[p].role])
    /\ IF req[p].role = "driver"
       THEN Goto(p, "register_driver", req[p])
       ELSE Goto(p, "register_commit", req[p])
    /\ UNCHANGED <<vehicles, rides, payments, stripe, events, tracking, sockets, nreq>>

\* if (role === 'driver') await query(`INSERT INTO drivers ...`)
RegisterInsertDriver(p) ==
    /\ pc[p] = "register_driver"
    /\ \E c \in Conns, licenseNumber \in LicenseNumbers :
        /\ InsertDriverOn(c, [user_id |-> req[p].userId, license_number |-> licenseNumber])
        /\ Goto(p, "register_commit", [req[p] EXCEPT !.licenseNumber = licenseNumber])
    /\ UNCHANGED <<vehicles, rides, payments, stripe, events, tracking, sockets, nreq>>

\* await query('COMMIT')
RegisterCommit(p) ==
    /\ pc[p] = "register_commit"
    /\ \E c \in Conns : CommitOn(c)
    /\ Goto(p, "register_select", req[p])
    /\ UNCHANGED <<vehicles, rides, payments, stripe, events, tracking, sockets, nreq>>

\* const userResult = await query('SELECT ... FROM users WHERE id = $1');
\* user = rows[0]; generateTokens(user) throws on an undefined user: the catch block
RegisterSelect(p) ==
    /\ pc[p] = "register_select"
    /\ \E c \in Conns :
        IF SelectUserById(c, req[p].userId) = {}
        THEN Goto(p, "register_rollback", req[p])
        ELSE Respond(p, 201, req[p])
    /\ UNCHANGED <<db, stripe, events, side, nreq>>

\* catch (dbError) { await query('ROLLBACK'); throw new AppError('Registration failed', 500) }
RegisterRollback(p) ==
    /\ pc[p] = "register_rollback"
    /\ \E c \in Conns : RollbackOn(c)
    /\ Respond(p, 500, req[p])
    /\ UNCHANGED <<db, stripe, events, tracking, users, sockets, nreq>>

\* ------------------------------------------------- Socket.IO (real time)
\* socket.on('join-ride', rideId => socket.join(`ride-${rideId}`))
JoinRide(s) ==
    /\ \E rideId \in RideIds :
        sockets' = [sockets EXCEPT ![s].rooms = @ \cup {rideId}]
    /\ UNCHANGED <<db, stripe, events, tracking, users, conns, nreq, pc, req>>

\* the events socket.to(`ride-${rideId}`).emit(event, ...) delivers: one to every
\* client in the room but the sender
EmitTo(s, rideId, event) ==
    [t \in Sockets |->
        IF t # s /\ rideId \in sockets[t].rooms
        THEN [sockets[t] EXCEPT !.inbox = @ \cup {[event |-> event, rideId |-> rideId]}]
        ELSE sockets[t]]

\* socket.on('driver-location-update', data => socket.to(...).emit('location-update'))
DriverLocationUpdate(s) ==
    /\ \E rideId \in RideIds : sockets' = EmitTo(s, rideId, "location-update")
    /\ UNCHANGED <<db, stripe, events, tracking, users, conns, nreq, pc, req>>

\* socket.on('ride-status-update', data => socket.to(...).emit('status-update'))
RideStatusUpdate(s) ==
    /\ \E rideId \in RideIds : sockets' = EmitTo(s, rideId, "status-update")
    /\ UNCHANGED <<db, stripe, events, tracking, users, conns, nreq, pc, req>>

\* socket.on('disconnect'): the client has left every room
Disconnect(s) ==
    /\ sockets' = [sockets EXCEPT ![s].rooms = {}]
    /\ UNCHANGED <<db, stripe, events, tracking, users, conns, nreq, pc, req>>

\* ------------------------------------------- routing and authenticateToken
\* the endpoints and what server.js mounts in front of them: nothing ("open") or
\* authenticateToken ("protected"); one endpoint stands for each protected router
Routes == [health |-> "open", logout |-> "open", verify |-> "open",
           users |-> "protected", drivers |-> "protected", rides |-> "protected",
           payments |-> "protected", vehicles |-> "protected"]

\* the Authorization header: absent ("none"), a token jwt.verify rejects ("bad"), or a
\* token jwt.verify accepts, named by the userId it decodes to ("gone": an identity
\* whose users row has been deleted since the token was issued)
Tokens == {"none", "bad", "pat", "du1", "gone"}

\* SELECT id, name, email, role FROM users WHERE id = $1
SelectUser(userId) == {u \in users : u.id = userId}

\* app.get('/health')
Health(p) ==
    /\ Accept(p)
    /\ \E token \in Tokens :
        Respond(p, 200, [NoReq EXCEPT !.op = "health", !.token = token])
    /\ UNCHANGED <<db, stripe, events, side>>

\* router.post('/logout', (req, res) => res.json({message: 'Logout successful'}))
Logout(p) ==
    /\ Accept(p)
    /\ \E token \in Tokens :
        Respond(p, 200, [NoReq EXCEPT !.op = "logout", !.token = token])
    /\ UNCHANGED <<db, stripe, events, side>>

\* router.get('/verify'): no token: throw 401; jwt.verify throws: catch, throw 401
VerifyBegin(p) ==
    /\ Accept(p)
    /\ \E token \in Tokens :
        LET r == [NoReq EXCEPT !.op = "verify", !.token = token] IN
        IF token \in {"none", "bad"} THEN Respond(p, 401, r)
        ELSE Goto(p, "verify_user", r)
    /\ UNCHANGED <<db, stripe, events, side>>

\* const userResult = await query('SELECT ... FROM users WHERE id = $1');
\* no row: throw 401; res.json({valid: true, user})
VerifyUser(p) ==
    /\ pc[p] = "verify_user"
    /\ IF SelectUser(req[p].token) = {}
       THEN Respond(p, 401, req[p])
       ELSE Respond(p, 200, [req[p] EXCEPT !.identity = req[p].token])
    /\ UNCHANGED <<db, stripe, events, side, nreq>>

\* authenticateToken up to its await: no token: 401; jwt.verify throws: catch, 403
AuthenticateToken(p) ==
    /\ Accept(p)
    /\ \E route \in {e \in DOMAIN Routes : Routes[e] = "protected"}, token \in Tokens :
        LET r == [NoReq EXCEPT !.op = route, !.token = token] IN
        IF token = "none" THEN Respond(p, 401, r)
        ELSE IF token = "bad" THEN Respond(p, 403, r)
        ELSE Goto(p, "auth_user", r)
    /\ UNCHANGED <<db, stripe, events, side>>

\* const result = await query('SELECT ... FROM users WHERE id = $1');
\* no row: 401; req.user = {id: decoded.userId, ...}; next()
AuthenticateUser(p) ==
    /\ pc[p] = "auth_user"
    /\ IF SelectUser(req[p].token) = {}
       THEN Respond(p, 401, req[p])
       ELSE Goto(p, "handler", [req[p] EXCEPT !.identity = req[p].token])
    /\ UNCHANGED <<db, stripe, events, side, nreq>>

\* next(): the router's handler runs with req.user and answers
RunHandler(p) ==
    /\ pc[p] = "handler"
    /\ \E code \in {200, 403, 404} : Respond(p, code, req[p])
    /\ UNCHANGED <<db, stripe, events, side, nreq>>

\* ------------------------------------------------------------ the system
\* one step of the handler in slot p
Step(p) ==
    \/ CreateRide(p)
    \/ PatchBegin(p)
    \/ PatchDriver(p)
    \/ PatchPermission(p)
    \/ PatchUpdate(p)
    \/ AssignBegin(p)
    \/ AssignCheckRide(p)
    \/ AssignCheckDriver(p)
    \/ AssignUpdate(p)
    \/ SetAvailability(p)
    \/ CreateIntentBegin(p)
    \/ CreateIntentCheckRide(p)
    \/ CreateIntentStripe(p)
    \/ CreateIntentInsert(p)
    \/ ConfirmBegin(p)
    \/ ConfirmRetrieve(p)
    \/ ConfirmUpdate(p)
    \/ ConfirmRide(p)
    \/ WebhookBegin(p)
    \/ WebhookSucceeded(p)
    \/ WebhookFailed(p)
    \/ Return(p)

\* requests are handled concurrently: their awaits interleave in any order
Next ==
    \/ \E p \in Procs : Step(p)
    \/ StripeSucceed
    \/ StripeFail

Spec == Init /\ [][Next]_vars

\* one request at a time: a handler runs only while no other
\* no other request is in flight
Alone(p) == \A q \in Procs \ {p} : pc[q] = "idle"

NextSeq ==
    \/ \E p \in Procs : Alone(p) /\ CreateRide(p)
    \/ \E p \in Procs : Alone(p) /\ PatchBegin(p)
    \/ \E p \in Procs : Alone(p) /\ PatchDriver(p)
    \/ \E p \in Procs : Alone(p) /\ PatchPermission(p)
    \/ \E p \in Procs : Alone(p) /\ PatchUpdate(p)
    \/ \E p \in Procs : Alone(p) /\ AssignBegin(p)
    \/ \E p \in Procs : Alone(p) /\ AssignCheckRide(p)
    \/ \E p \in Procs : Alone(p) /\ AssignCheckDriver(p)
    \/ \E p \in Procs : Alone(p) /\ AssignUpdate(p)
    \/ \E p \in Procs : Alone(p) /\ SetAvailability(p)
    \/ \E p \in Procs : Alone(p) /\ CreateIntentBegin(p)
    \/ \E p \in Procs : Alone(p) /\ CreateIntentCheckRide(p)
    \/ \E p \in Procs : Alone(p) /\ CreateIntentStripe(p)
    \/ \E p \in Procs : Alone(p) /\ CreateIntentInsert(p)
    \/ \E p \in Procs : Alone(p) /\ ConfirmBegin(p)
    \/ \E p \in Procs : Alone(p) /\ ConfirmRetrieve(p)
    \/ \E p \in Procs : Alone(p) /\ ConfirmUpdate(p)
    \/ \E p \in Procs : Alone(p) /\ ConfirmRide(p)
    \/ \E p \in Procs : Alone(p) /\ WebhookBegin(p)
    \/ \E p \in Procs : Alone(p) /\ WebhookSucceeded(p)
    \/ \E p \in Procs : Alone(p) /\ WebhookFailed(p)
    \/ \E p \in Procs : Alone(p) /\ Return(p)
    \/ StripeSucceed
    \/ StripeFail

SpecSeq == Init /\ [][NextSeq]_vars

\* the rides and their read side: create and assign, list, fetch, tracking
NextRides ==
    \/ \E p \in Procs : CreateRide(p)
    \/ \E p \in Procs : AssignBegin(p)
    \/ \E p \in Procs : AssignCheckRide(p)
    \/ \E p \in Procs : AssignCheckDriver(p)
    \/ \E p \in Procs : AssignUpdate(p)
    \/ \E p \in Procs : ListBegin(p)
    \/ \E p \in Procs : ListDriver(p)
    \/ \E p \in Procs : ListQuery(p)
    \/ \E p \in Procs : GetBegin(p)
    \/ \E p \in Procs : GetDriver(p)
    \/ \E p \in Procs : GetQuery(p)
    \/ \E p \in Procs : TrackingBegin(p)
    \/ \E p \in Procs : TrackingDriver(p)
    \/ \E p \in Procs : TrackingPermission(p)
    \/ \E p \in Procs : TrackingSelect(p)
    \/ \E p \in Procs : AddTrackingBegin(p)
    \/ \E p \in Procs : AddTrackingDriver(p)
    \/ \E p \in Procs : AddTrackingRide(p)
    \/ \E p \in Procs : AddTrackingInsert(p)
    \/ \E p \in Procs : Return(p)

SpecRides == Init /\ [][NextRides]_vars

\* the vehicle registry
NextVehicles ==
    \/ \E p \in Procs : AddVehicleBegin(p)
    \/ \E p \in Procs : AddVehicleDriver(p)
    \/ \E p \in Procs : AddVehicleExisting(p)
    \/ \E p \in Procs : AddVehicleInsert(p)
    \/ \E p \in Procs : Return(p)

SpecVehicles == Init /\ [][NextVehicles]_vars

\* the registration
NextRegister ==
    \/ \E p \in Procs : RegisterBegin(p)
    \/ \E p \in Procs : RegisterExisting(p)
    \/ \E p \in Procs : RegisterTxBegin(p)
    \/ \E p \in Procs : RegisterInsertUser(p)
    \/ \E p \in Procs : RegisterInsertDriver(p)
    \/ \E p \in Procs : RegisterCommit(p)
    \/ \E p \in Procs : RegisterSelect(p)
    \/ \E p \in Procs : RegisterRollback(p)
    \/ \E p \in Procs : Return(p)

SpecRegister == Init /\ [][NextRegister]_vars

\* a store that holds two accepted rides and a feed of n samples written earlier by
\* their drivers through POST /rides/:id/tracking (every ninth sample is ride 2's)
InitFeed ==
    /\ drivers = << [user_id |-> "du1", availability |-> TRUE, license_number |-> "L1",
                      vehicle_type |-> "car", rating |-> 500],
                    [user_id |-> "du2", availability |-> TRUE, license_number |-> "L2",
                      vehicle_type |-> "van", rating |-> 500] >>
    /\ vehicles = << [driver_id |-> 2, license_plate |-> "V2"] >>
    /\ rides = << [user_id |-> "pat", driver_id |-> 1, vehicle_id |-> NULL,
                   status |-> "accepted", fare |-> BaseFare],
                  [user_id |-> "pa2", driver_id |-> 2, vehicle_id |-> NULL,
                   status |-> "accepted", fare |-> BaseFare] >>
    /\ payments = << >>
    /\ stripe = << >>
    /\ events = {}
    /\ \E n \in 0..MaxFeed :
        tracking = [k \in 1..n |-> [ride_id |-> IF k % 9 = 0 THEN 2 ELSE 1,
                                    latitude |-> 37, longitude |-> 37]]
    /\ users = {[id |-> u, email |-> u, role |-> Users[u]] : u \in DOMAIN Users}
    /\ conns = [c \in Conns |-> NoTxn]
    /\ sockets = [s \in Sockets |-> NoSocket]
    /\ nreq = 0
    /\ pc = [p \in Procs |-> "idle"]
    /\ req = [p \in Procs |-> NoReq]

\* reading stored feeds
NextFeed ==
    \/ \E p \in Procs : TrackingBegin(p)
    \/ \E p \in Procs : TrackingDriver(p)
    \/ \E p \in Procs : TrackingPermission(p)
    \/ \E p \in Procs : TrackingSelect(p)
    \/ \E p \in Procs : Return(p)

SpecFeed == InitFeed /\ [][NextFeed]_vars

\* the identities of the drivers that registered after the seeded ones
LaterDrivers == {"du4", "du5", "du6", "du7", "du8"}

\* a store with seven registered drivers, six of them driving a car, some of whom have
\* switched their availability off through PATCH /drivers/availability
InitCreate ==
    /\ \E off \in SUBSET {3, 4, 7} :
        drivers = [d \in 1..7 |->
            [user_id |-> <<"du1", "du2", "du4", "du5", "du6", "du7", "du8">>[d],
             availability |-> d \notin off,
             license_number |-> <<"L1", "L2", "L4", "L5", "L6", "L7", "L8">>[d],
             vehicle_type |-> IF d = 2 THEN "van" ELSE "car",
             rating |-> <<480, 500, 500, 450, 500, 390, 470>>[d]]]
    /\ vehicles = << [driver_id |-> 2, license_plate |-> "V2"] >>
    /\ rides = << >>
    /\ payments = << >>
    /\ stripe = << >>
    /\ events = {}
    /\ tracking = << >>
    /\ users = {[id |-> u, email |-> u, role |-> Users[u]] : u \in DOMAIN Users} \cup
               {[id |-> u, email |-> u, role |-> "driver"] : u \in LaterDrivers}
    /\ conns = [c \in Conns |-> NoTxn]
    /\ sockets = [s \in Sockets |-> NoSocket]
    /\ nreq = 0
    /\ pc = [p \in Procs |-> "idle"]
    /\ req = [p \in Procs |-> NoReq]

\* booking rides
NextCreate ==
    \/ \E p \in Procs : CreateRideAny(p)
    \/ \E p \in Procs : CreateRideDrivers(p)
    \/ \E p \in Procs : Return(p)

SpecCreate == InitCreate /\ [][NextCreate]_vars

\* the endpoints behind the routing
NextAuth ==
    \/ \E p \in Procs : Health(p)
    \/ \E p \in Procs : Logout(p)
    \/ \E p \in Procs : VerifyBegin(p)
    \/ \E p \in Procs : VerifyUser(p)
    \/ \E p \in Procs : AuthenticateToken(p)
    \/ \E p \in Procs : AuthenticateUser(p)
    \/ \E p \in Procs : RunHandler(p)
    \/ \E p \in Procs : Return(p)

SpecAuth == Init /\ [][NextAuth]_vars

\* a store that holds one ride, accepted and assigned to driver profile 1
InitLive ==
    /\ drivers = << [user_id |-> "du1", availability |-> TRUE, license_number |-> "L1",
                      vehicle_type |-> "car", rating |-> 500],
                    [user_id |-> "du2", availability |-> TRUE, license_number |-> "L2",
                      vehicle_type |-> "van", rating |-> 500] >>
    /\ vehicles = << [driver_id |-> 2, license_plate |-> "V2"] >>
    /\ rides = << [user_id |-> "pat", driver_id |-> 1, vehicle_id |-> NULL,
                   status |-> "accepted", fare |-> BaseFare] >>
    /\ payments = << >>
    /\ stripe = << >>
    /\ events = {}
    /\ tracking = << >>
    /\ users = {[id |-> u, email |-> u, role |-> Users[u]] : u \in DOMAIN Users}
    /\ conns = [c \in Conns |-> NoTxn]
    /\ sockets = [s \in Sockets |-> NoSocket]
    /\ nreq = 0
    /\ pc = [p \in Procs |-> "idle"]
    /\ req = [p \in Procs |-> NoReq]

\* what the server does on its own once a tracking write has been accepted
TrackingSteps ==
    \/ \E p \in Procs : AddTrackingDriver(p)
    \/ \E p \in Procs : AddTrackingRide(p)
    \/ \E p \in Procs : AddTrackingInsert(p)

\* tracking writes next to the real-time channel
NextLive ==
    \/ \E p \in Procs : AddTrackingBegin(p)
    \/ TrackingSteps
    \/ \E p \in Procs : Return(p)
    \/ \E s \in Sockets : JoinRide(s)
    \/ \E s \in Sockets : DriverLocationUpdate(s)
    \/ \E s \in Sockets : RideStatusUpdate(s)
    \/ \E s \in Sockets : Disconnect(s)

\* the event loop runs every handler to its end; what a client sends is the client's choice
SpecLive == InitLive /\ [][NextLive]_vars /\ WF_vars(TrackingSteps)

\* ==================================================================== claims
\* the handler in slot p has just answered
Answers(p) == pc[p] # "done" /\ pc'[p] = "done"

\* slot p holds the answer to a request of kind op
Answered(p, op) == pc[p] = "done" /\ req[p].op = op

\* the vehicles a driver owns
VehiclesOf(driverId) == {v \in DOMAIN vehicles : vehicles[v].driver_id = driverId}

\* C1: of two assign requests naming different drivers for the same ride that both read
\* it as pending, exactly one succeeds: no successful assign overwrites the successful
\* assignment of the other (the ride is never assigned twice).
C1_ExactlyOneAssignSucceeds ==
    \A p \in Procs : \A q \in Procs \ {p} :
        ~ /\ Answered(p, "assign") /\ Answered(q, "assign")
          /\ req[p].ride = req[q].ride
          /\ req[p].driver # req[q].driver
          /\ req[p].resp = 200 /\ req[q].resp = 200
          /\ req[p].prev = "pending" /\ req[q].prev = "accepted"

\* the precondition of assign(R, X): R exists and is pending, X exists and is available
AssignPrecondition(rideId, driverId) ==
    /\ rideId \in DOMAIN rides
    /\ rides[rideId].status = "pending"
    /\ driverId \in DOMAIN drivers
    /\ drivers[driverId].availability

\* C2: an admin's assign(R, X), handled with no other request in flight, succeeds if and
\* only if R exists with status pending and X exists with availability true; after a
\* success R is accepted, R.driver_id is X and R.vehicle_id is the vehicle X owns (NULL
\* when X owns none), the rest of the ride unchanged.
C2_AssignIffPrecondition ==
    [][\A p \in Procs :
        (req[p].op = "assign" /\ Answers(p)) =>
            /\ req'[p].resp = 200 <=> AssignPrecondition(req[p].ride, req[p].driver)
            /\ req'[p].resp = 200 =>
                /\ rides'[req[p].ride].status = "accepted"
                /\ rides'[req[p].ride].driver_id = req[p].driver
                /\ IF VehiclesOf(req[p].driver) = {}
                   THEN rides'[req[p].ride].vehicle_id = NULL
                   ELSE rides'[req[p].ride].vehicle_id \in VehiclesOf(req[p].driver)
                /\ rides'[req[p].ride].user_id = rides[req[p].ride].user_id
                /\ Len(rides') = Len(rides)]_vars

\* C2 witness: an assign of the driver who owns a vehicle has succeeded
C2_Witness ==
    \E p \in Procs :
        /\ Answered(p, "assign") /\ req[p].resp = 200
        /\ rides[req[p].ride].status = "accepted"
        /\ rides[req[p].ride].driver_id = req[p].driver
        /\ rides[req[p].ride].vehicle_id # NULL

\* C3: an assign request that fails leaves the rides as they were: every step of an
\* assign handler that changes a ride is the step that answers 200, so a request that
\* answers an error has written nothing (no partial assignment).
C3_FailedAssignWritesNothing ==
    [][\A p \in Procs :
        (req'[p].op = "assign" /\ pc'[p] # pc[p] /\ pc'[p] # "idle") =>
            /\ rides' # rides => (pc'[p] = "done" /\ req'[p].resp = 200)
            /\ (pc'[p] = "done" /\ req'[p].resp # 200) =>
                    (rides' = rides /\ req'[p].resp \in {400, 403, 404})]_vars

\* C3 witness: an assign of an unavailable driver to a pending ride was answered 404 and
\* the ride is still pending and unassigned
C3_Witness ==
    \E p \in Procs :
        /\ Answered(p, "assign") /\ req[p].resp = 404
        /\ req[p].ride \in DOMAIN rides
        /\ rides[req[p].ride].status = "pending"
        /\ rides[req[p].ride].driver_id = NULL
        /\ rides[req[p].ride].vehicle_id = NULL
        /\ req[p].driver \in DOMAIN drivers
        /\ ~drivers[req[p].driver].availability

\* C4: a ride whose driver_id or vehicle_id is set has a status other than pending.
C4_AssignedRideNotPending ==
    \A i \in DOMAIN rides :
        (rides[i].driver_id # NULL \/ rides[i].vehicle_id # NULL) =>
            rides[i].status # "pending"

\* the edges of the ride state machine
AllowedEdges ==
    { <<"pending", "accepted">>, <<"accepted", "in-progress">>,
      <<"in-progress", "completed">>, <<"pending", "canceled">>,
      <<"accepted", "canceled">> }

\* C5: every change of a ride's status made by the update and assign operations follows
\* an edge of the state machine.
C5_StatusFollowsEdges ==
    [][\A p \in Procs :
        (pc[p] \in {"patch_update", "assign_update"} /\ pc'[p] = "done") =>
            \A i \in DOMAIN rides :
                rides'[i].status # rides[i].status =>
                    <<rides[i].status, rides'[i].status>> \in AllowedEdges]_vars

\* C6: whenever no request is in flight, every ride that has a payment with status
\* completed has ride status completed.
C6_PaidRideCompleted ==
    (\A p \in Procs : pc[p] = "idle") =>
        \A j \in DOMAIN payments :
            payments[j].status = "completed" =>
                rides[payments[j].ride_id].status = "completed"

\* C7: after a direct confirmation by the payer of an intent the provider reports as
\* succeeded, handled with no other request in flight, the answer is 200, the payment is
\* completed and the linked ride is completed, whatever the ride's status was before.
C7_ConfirmCompletesRide ==
    \A p \in Procs :
        ( /\ Answered(p, "confirm")
          /\ req[p].piStatus = "succeeded"
          /\ PaymentRowsOfUser(req[p].intent, req[p].user) # {} ) =>
            /\ req[p].resp = 200
            /\ \A j \in PaymentRowsOfUser(req[p].intent, req[p].user) :
                /\ payments[j].status = "completed"
                /\ rides[payments[j].ride_id].status = "completed"

\* C7 witness: a confirmation has completed a ride that was canceled immediately before
C7_Witness ==
    \E p \in Procs :
        /\ Answered(p, "confirm") /\ req[p].resp = 200
        /\ req[p].piStatus = "succeeded"
        /\ req[p].prev = "canceled"
        /\ rides[req[p].payRide].status = "completed"
        /\ \E j \in DOMAIN payments :
            payments[j].ride_id = req[p].payRide /\ payments[j].status = "completed"

\* C8: when a signature-verified payment_intent.succeeded event has moved a payment to
\* completed, the processing of that event has set the linked ride to completed.
C8_WebhookCompletesRide ==
    \A p \in Procs :
        ( /\ Answered(p, "webhook") /\ req[p].resp = 200
          /\ req[p].sig
          /\ req[p].type = "payment_intent.succeeded"
          /\ req[p].prev \in {"pending", "failed"} ) =>
            \A j \in PaymentRowsOfIntent(req[p].intent) :
                /\ payments[j].status = "completed"
                /\ rides[payments[j].ride_id].status = "completed"

\* what the webhook handler writes for an event of the given type
WebhookReplay(type, paymentIntentId) ==
    IF type = "payment_intent.succeeded" THEN UpdatePaymentWebhook("completed", paymentIntentId)
    ELSE IF type = "payment_intent.payment_failed" THEN UpdatePaymentWebhook("failed", paymentIntentId)
    ELSE payments

ProviderConfirms(paymentIntentId, status) ==
    \/ /\ status = "completed"
       /\ paymentIntentId \in DOMAIN stripe
       /\ stripe[paymentIntentId].status = "succeeded"
    \/ /\ status = "failed"
       /\ \/ [type |-> "payment_intent.payment_failed", id |-> paymentIntentId] \in events
          \/ \E p \in Procs :
                /\ pc[p] = "confirm_update" /\ pc'[p] # "confirm_update"
                /\ req[p].intent = paymentIntentId
                /\ req[p].piStatus # "succeeded"

\* C10: a payment record is created with status pending, and its status changes only to
\* the status the provider vouches for; the status a confirm call works with is the one
\* the provider reported for the intent.
C10_PaymentStatusFromProvider ==
    [][ /\ \A j \in DOMAIN payments' :
            IF j \notin DOMAIN payments
            THEN payments'[j].status = "pending"
            ELSE payments'[j].status # payments[j].status =>
                    ProviderConfirms(payments[j].stripe_payment_intent_id,
                                     payments'[j].status)
        /\ \A p \in Procs :
            req'[p].piStatus \notin {req[p].piStatus, "none"} =>
                /\ req'[p].intent \in DOMAIN stripe
                /\ req'[p].piStatus = stripe[req'[p].intent].status ]_vars

\* C10 witness: a payment is completed and a webhook with a bad signature was answered 400
C10_Witness ==
    /\ \E j \in DOMAIN payments : payments[j].status = "completed"
    /\ \E p \in Procs : Answered(p, "webhook") /\ req[p].resp = 400 /\ ~req[p].sig

\* C11: a webhook request whose signature does not verify is answered 400 in its first
\* step and changes no payment and no ride; every step of a webhook handler that changes
\* a payment or a ride belongs to a request whose signature verified, that is, to an
\* event the provider emitted.
C11_UnverifiedWebhookWritesNothing ==
    [][\A p \in Procs :
        (req'[p].op = "webhook" /\ pc'[p] # pc[p] /\ pc'[p] # "idle") =>
            /\ ~req'[p].sig =>
                    /\ pc'[p] = "done" /\ req'[p].resp = 400
                    /\ payments' = payments /\ rides' = rides
            /\ (payments' # payments \/ rides' # rides) =>
                    /\ req'[p].sig
                    /\ [type |-> req'[p].type, id |-> req'[p].intent] \in events]_vars

\* C11 witness: a forged succeeded event for an intent whose payment is pending was
\* answered 400 and the payment is pending still
C11_Witness ==
    \E p \in Procs :
        /\ Answered(p, "webhook") /\ ~req[p].sig /\ req[p].resp = 400
        /\ req[p].type = "payment_intent.succeeded"
        /\ \E j \in PaymentRowsOfIntent(req[p].intent) : payments[j].status = "pending"

\* the driver profiles of an identity
ProfilesOf(user) == {d \in DOMAIN drivers : drivers[d].user_id = user}

\* the rides of patient P that match a status filter
RidesOfPatient(P, status) ==
    {i \in DOMAIN rides :
        rides[i].user_id = P /\ (status # "undefined" => rides[i].status = status)}

\* the ids a response carries
Returned(rows) == {rows[k] : k \in DOMAIN rows}

\* C12: a list request of a patient P is answered 200 with rides of P that match the
\* status filter only, each once; the page holds min(limit, matching - offset) of them,
\* so a page that starts at 0 and is long enough omits none, and a patient with no
\* matching ride gets the empty list.
C12_PatientListsOwnRides ==
    [][\A p \in Procs :
        (pc[p] = "list_query" /\ pc'[p] = "done" /\ Users[req[p].user] = "patient") =>
            LET r == req'[p]
                mine == RidesOfPatient(r.user, r.status)
                left == IF Cardinality(mine) < r.offset THEN 0
                        ELSE Cardinality(mine) - r.offset
            IN  /\ r.resp = 200
                /\ Returned(r.rows) \subseteq mine
                /\ \A k, l \in DOMAIN r.rows : k # l => r.rows[k] # r.rows[l]
                /\ Len(r.rows) = IF left < r.limit THEN left ELSE r.limit
                /\ (r.offset = 0 /\ Cardinality(mine) <= r.limit) => Returned(r.rows) = mine
                /\ mine = {} => r.rows = << >>]_vars

\* C12 witness: a patient listed without filter and got exactly the ride they requested,
\* and another patient listed the same table and got the empty list
C12_Witness ==
    \E p \in Procs : \E q \in Procs \ {p} :
        /\ Answered(p, "list") /\ req[p].user = "pat" /\ req[p].resp = 200
        /\ req[p].status = "undefined" /\ req[p].offset = 0
        /\ Len(req[p].rows) = 1
        /\ Returned(req[p].rows) = RidesOfPatient("pat", "undefined")
        /\ Answered(q, "list") /\ req[q].user = "pa2" /\ req[q].resp = 200
        /\ req[q].status = "undefined" /\ req[q].offset = 0
        /\ req[q].rows = << >>

\* C13: a caller with role driver that has no driver profile gets the empty list from a
\* list request and no ride from a fetch by id.
C13_NoProfileDriverSeesNoRide ==
    [][\A p \in Procs :
        ( /\ Answers(p)
          /\ req[p].op \in {"list", "get"}
          /\ Users[req[p].user] = "driver"
          /\ ProfilesOf(req[p].user) = {} ) =>
            req'[p].rows = << >>]_vars

\* ride i is in the scope of a caller: the caller requested it, or a driver profile of
\* the caller is assigned to it
InScope(user, i) ==
    /\ i \in DOMAIN rides
    /\ \/ rides[i].user_id = user
       \/ rides[i].driver_id \in ProfilesOf(user)

\* C14: a fetch by a non-admin caller of an id outside the caller's scope, whether the
\* ride exists or not, is answered 404 and carries no ride.
C14_OutOfScopeIsNotFound ==
    [][\A p \in Procs :
        ( /\ pc[p] = "get_query" /\ pc'[p] = "done"
          /\ Users[req[p].user] # "admin"
          /\ ~InScope(req[p].user, req[p].ride) ) =>
            (req'[p].resp = 404 /\ req'[p].rows = << >>)]_vars

\* C15: a step of an update handler changes a ride only when the caller is an admin or
\* a driver whose profile is the ride's assigned driver; an update request of any other
\* caller is answered 400, 403 or 404.
C15_UpdateOnlyByAssignedDriverOrAdmin ==
    [][\A p \in Procs :
        (req'[p].op = "patch" /\ pc'[p] # pc[p] /\ pc'[p] # "idle") =>
            LET user == req'[p].user
                permitted == \/ Users[user] = "admin"
                             \/ /\ Users[user] = "driver"
                                /\ req'[p].ride \in DOMAIN rides
                                /\ rides[req'[p].ride].driver_id \in ProfilesOf(user)
            IN  /\ rides' # rides => permitted
                /\ (pc'[p] = "done" /\ ~permitted) => req'[p].resp \in {400, 403, 404}]_vars

\* C19: a tracking write appends a sample exactly when the caller has role driver, a
\* driver profile of the caller is the ride's assigned driver and the body carries a
\* latitude and a longitude, whatever their numeric values; any other tracking write is
\* answered with an error and appends nothing.
C19_TrackingAppendIffAssignedDriver ==
    [][\A p \in Procs :
        (req'[p].op = "point" /\ Answers(p)) =>
            LET r == req'[p]
                entitled == /\ Users[r.user] = "driver"
                            /\ InScope(r.user, r.ride)
                            /\ rides[r.ride].driver_id \in ProfilesOf(r.user)
                            /\ r.latitude # << >> /\ r.longitude # << >>
            IN  /\ entitled <=> (r.resp = 200 /\ Len(tracking') = Len(tracking) + 1)
                /\ ~entitled => (r.resp \in {400, 403, 404} /\ tracking' = tracking)]_vars

\* C20: the permission step of a tracking read of an existing ride R lets the caller
\* through exactly when the caller is R's requester, a driver whose profile is R's
\* assigned driver, or an admin, and answers every other caller 403 without samples; a
\* caller let through is answered 200 with the samples of R, latest first.
C20_TrackingReadPermission ==
    [][\A p \in Procs :
        /\ ( /\ pc[p] = "tracking_perm" /\ pc'[p] # "tracking_perm"
             /\ req[p].ride \in DOMAIN rides ) =>
                IF InScope(req[p].user, req[p].ride) \/ Users[req[p].user] = "admin"
                THEN pc'[p] = "tracking_select"
                ELSE pc'[p] = "done" /\ req'[p].resp = 403 /\ req'[p].rows = << >>
        /\ (pc[p] = "tracking_select" /\ pc'[p] # "tracking_select") =>
                /\ pc'[p] = "done" /\ req'[p].resp = 200
                /\ Returned(req'[p].rows) =
                        {k \in DOMAIN tracking : tracking[k].ride_id = req[p].ride}
                /\ \A k, l \in DOMAIN req'[p].rows :
                        k < l => req'[p].rows[k] > req'[p].rows[l]]_vars

\* C20 witness: the assigned driver read the feed of the ride and got its sample
C20_Witness ==
    \E p \in Procs :
        /\ Answered(p, "tracking") /\ req[p].resp = 200
        /\ req[p].user = "du1" /\ Len(req[p].rows) = 1
        /\ rides[req[p].ride].driver_id \in ProfilesOf("du1")
        /\ rides[req[p].ride].user_id # "du1"

\* C18: every driver profile owns at most one vehicle.
C18_AtMostOneVehiclePerDriver ==
    \A d \in DOMAIN drivers : Cardinality(VehiclesOf(d)) <= 1

\* the identity row and the driver-profile row a registration request has created
IdentityOf(r) == {u \in users : u.id = r.userId}
ProfileOf(r) == {d \in DOMAIN drivers : drivers[d].user_id = r.userId}

\* C16: when a registration with role driver has been answered, its identity row and
\* its driver-profile row both exist or neither does.
C16_RegistrationAtomic ==
    \A p \in Procs :
        (Answered(p, "register") /\ req[p].role = "driver") =>
            (IdentityOf(req[p]) # {} <=> ProfileOf(req[p]) # {})

\* C17: a registration that passes validation and whose email belongs to the committed
\* identity of somebody else when it is answered, is answered 409 and has added no
\* identity row and no driver-profile row.
C17_DuplicateEmailConflict ==
    [][\A p \in Procs :
        ( /\ req'[p].op = "register" /\ Answers(p)
          /\ req'[p].resp # 400
          /\ \E u \in users : u.email = req'[p].email /\ u.id # req'[p].userId ) =>
            /\ req'[p].resp = 409
            /\ IdentityOf(req'[p]) = {} /\ ProfileOf(req'[p]) = {}]_vars

C29_CompletedPaymentStays ==
    [][\A j \in DOMAIN payments :
        payments[j].status = "completed" => payments'[j].status = "completed"]_vars

\* C30: a direct confirmation by a user other than the payer of the intent is answered
\* 403, one by the payer for an intent that has no payment record is answered 404, and
\* neither changes a payment or a ride.
C30_ConfirmForbiddenOrNotFound ==
    [][\A p \in Procs :
        ( /\ req'[p].op = "confirm" /\ Answers(p)
          /\ req'[p].intent \in DOMAIN stripe ) =>
            /\ stripe[req'[p].intent].userId # req'[p].user =>
                    (req'[p].resp = 403 /\ payments' = payments /\ rides' = rides)
            /\ ( /\ stripe[req'[p].intent].userId = req'[p].user
                 /\ PaymentRowsOfUser(req'[p].intent, req'[p].user) = {} ) =>
                    (req'[p].resp = 404 /\ payments' = payments /\ rides' = rides)]_vars

\* C25: an add-vehicle request is answered 201 only when its INSERT stored the vehicle:
\* the row the response reports exists and belongs to the caller's driver profile (a
\* request whose statement failed is answered with a 5xx instead).
C25_SuccessMeansPersisted ==
    \A p \in Procs :
        (Answered(p, "vehicle") /\ req[p].resp = 201) =>
            /\ req[p].vehicle_id \in DOMAIN vehicles
            /\ vehicles[req[p].vehicle_id].driver_id = req[p].driverRow

\* C26: an add-vehicle request whose INSERT violates the uniqueness of license_plate
\* (the statement stores no row) is answered 409.
C26_UniqueViolationIsConflict ==
    [][\A p \in Procs :
        (pc[p] = "vehicle_insert" /\ Answers(p) /\ vehicles' = vehicles) =>
            req'[p].resp = 409]_vars

\* the samples recorded for a ride
SamplesOf(rideId) == {k \in DOMAIN tracking : tracking[k].ride_id = rideId}

\* C21: a feed read answered 200 returns min(n, 50) samples of the n recorded for the
\* ride, each of them a sample of that ride, each newer than the one after it, and none
\* older than a sample of the ride that was left out.
C21_FeedIsNewestFifty ==
    \A p \in Procs :
        (Answered(p, "tracking") /\ req[p].resp = 200) =>
            LET rows == req[p].rows
                n == Cardinality(SamplesOf(req[p].ride))
            IN  /\ Len(rows) = IF n < 50 THEN n ELSE 50
                /\ \A k \in DOMAIN rows : rows[k] \in SamplesOf(req[p].ride)
                /\ \A k \in DOMAIN rows : k > 1 => rows[k] < rows[k - 1]
                /\ \A k \in DOMAIN rows :
                        \A j \in SamplesOf(req[p].ride) :
                            (\A i \in DOMAIN rows : rows[i] # j) => j < rows[k]

\* C21 witness: a ride with more than 50 samples was read and 50 came back
C21_Witness ==
    \E p \in Procs :
        /\ Answered(p, "tracking") /\ req[p].resp = 200
        /\ Cardinality(SamplesOf(req[p].ride)) > 50
        /\ Len(req[p].rows) = 50
        /\ \E k \in DOMAIN tracking : tracking[k].ride_id # req[p].ride

\* the step of slot p stores a ride
Creates(p) ==
    /\ pc[p] = "idle" /\ req'[p].op = "create"
    /\ Len(rides') = Len(rides) + 1

\* C23: the fare stored with a new ride is 15.0 + 2.5 * distance(start, end) when the
\* body supplies all four coordinates (0 included), and 15.0 when one is absent.
C23_FareFromDistance ==
    [][\A p \in Procs :
        Creates(p) =>
            LET b == req'[p]
                fare == rides'[Len(rides')].fare
            IN  IF /\ b.startLatitude # << >> /\ b.startLongitude # << >>
                   /\ b.endLatitude # << >> /\ b.endLongitude # << >>
                THEN fare = BaseFare +
                        (calculateDistance(b.startLatitude[1], b.startLongitude[1],
                                           b.endLatitude[1], b.endLongitude[1]) * 25) \div 10
                ELSE fare = BaseFare]_vars

\* C24: the step that stores a new ride stores it pending, requested by the caller, with
\* no driver and no vehicle, and changes no driver; the step that answers a creation
\* with a vehicleType lists at most 5 drivers, each one available and of that type, none
\* rated above the one before it, and changes no driver and no ride.
C24_CreatedPendingWithAdvisoryList ==
    [][\A p \in Procs :
        /\ Creates(p) =>
            /\ rides'[Len(rides')].status = "pending"
            /\ rides'[Len(rides')].user_id = req'[p].user
            /\ rides'[Len(rides')].driver_id = NULL
            /\ rides'[Len(rides')].vehicle_id = NULL
            /\ drivers' = drivers
        /\ (pc[p] = "create_drivers" /\ Answers(p)) =>
            LET rows == req'[p].rows IN
            /\ req'[p].resp = 201
            /\ Len(rows) <= 5
            /\ \A k \in DOMAIN rows :
                /\ rows[k] \in DOMAIN drivers
                /\ drivers[rows[k]].availability
                /\ drivers[rows[k]].vehicle_type = req[p].vehicleType
                /\ k > 1 => drivers[rows[k]].rating <= drivers[rows[k - 1]].rating
            /\ drivers' = drivers /\ rides' = rides
            /\ rides[req[p].ride].driver_id = NULL]_vars

\* C24 witness: a creation that asked for a car was answered with 5 drivers while six
\* drivers of a car were available
C24_Witness ==
    \E p \in Procs :
        /\ Answered(p, "create") /\ req[p].resp = 201
        /\ req[p].vehicleType = "car" /\ Len(req[p].rows) = 5
        /\ Cardinality({d \in DOMAIN drivers :
                drivers[d].availability /\ drivers[d].vehicle_type = "car"}) > 5
        /\ rides[req[p].ride].status = "pending"

\* C27: a request to an endpoint other than /health (and the three open /auth
\* endpoints) that carries no token, or one that fails verification, is answered 401 or
\* 403; and a handler behind the routing runs only with the identity of a stored user.
C27_EveryOtherEndpointAuthenticates ==
    \A p \in Procs :
        /\ ( /\ pc[p] = "done" /\ req[p].op \in DOMAIN Routes \ {"health"}
             /\ req[p].token \in {"none", "bad"} ) => req[p].resp \in {401, 403}
        /\ pc[p] = "handler" => SelectUser(req[p].identity) # {}

\* a tracking write for the ride has been answered with success
Written(rideId) ==
    \E p \in Procs : Answered(p, "point") /\ req[p].resp = 200 /\ req[p].ride = rideId

\* C22: whenever a tracking write for a ride has succeeded while a client is in the
\* ride's room, that client eventually holds a location-update event of the ride (or
\* has left the room).
C22_WriteIsBroadcast ==
    \A s \in Sockets : \A rideId \in RideIds :
        (Written(rideId) /\ rideId \in sockets[s].rooms) ~>
            \/ [event |-> "location-update", rideId |-> rideId] \in sockets[s].inbox
            \/ rideId \notin sockets[s].rooms

====
